---- MODULE Spec2Model ----
(***************************************************************************)
(* A model of gobrowse (src/main.go): the AppState of the terminal file    *)
(* browser, its event-loop handlers, the update queue of the presentation  *)
(* library, the background preview goroutines and the file operations.     *)
(*                                                                         *)
(* Strings are sequences of one-character strings, so that ToLower,        *)
(* Contains, TrimSpace, TrimPrefix and filepath.Ext are computed.  A path  *)
(* is the sequence of its components; the root "/" is << >>.               *)
(***************************************************************************)
EXTENDS Integers, Sequences, FiniteSets, TLC

\* ------------------------------------------------------------------------
\* Strings (package strings, path/filepath)
\* ------------------------------------------------------------------------

\* The characters of the model in byte order.
Ascii ==
  << " ", ".", ":", "A", "B", "D", "G", "I", "R", "[", "]",
     "a", "b", "c", "d", "g", "i", "n", "o", "p", "r", "t", "u", "x", "z" >>

Ord(c) == CHOOSE i \in 1..Len(Ascii) : Ascii[i] = c

\* unicode.ToLower on one character
ToLowerChar(c) ==
  CASE c = "A" -> "a" [] c = "B" -> "b" [] c = "D" -> "d"
    [] c = "G" -> "g" [] c = "I" -> "i" [] c = "R" -> "r"
    [] OTHER -> c

\* strings.ToLower
ToLower(s) == [i \in 1..Len(s) |-> ToLowerChar(s[i])]

\* the byte-wise order of Go's < on strings
StrLess(a, b) ==
  \E i \in 1..(Len(b)) :
     /\ \A j \in 1..(i-1) : j <= Len(a) /\ a[j] = b[j]
     /\ \/ i = Len(a) + 1
        \/ i <= Len(a) /\ Ord(a[i]) < Ord(b[i])

\* strings.HasPrefix
HasPrefix(s, p) == Len(p) <= Len(s) /\ SubSeq(s, 1, Len(p)) = p

\* strings.TrimPrefix
TrimPrefix(s, p) == IF HasPrefix(s, p) THEN SubSeq(s, Len(p) + 1, Len(s)) ELSE s

\* strings.Contains
Contains(s, sub) ==
  \E i \in 0..(Len(s) - Len(sub)) : SubSeq(s, i + 1, i + Len(sub)) = sub

\* strings.TrimSpace
RECURSIVE TrimLeft(_)
TrimLeft(s) == IF s # << >> /\ Head(s) = " " THEN TrimLeft(Tail(s)) ELSE s
RECURSIVE TrimRight(_)
TrimRight(s) ==
  IF s # << >> /\ s[Len(s)] = " " THEN TrimRight(SubSeq(s, 1, Len(s) - 1)) ELSE s
TrimSpace(s) == TrimRight(TrimLeft(s))

\* filepath.Ext of one path element: the suffix from the last dot
Ext(name) ==
  IF \E i \in 1..Len(name) : name[i] = "."
  THEN LET i == CHOOSE k \in 1..Len(name) :
                  name[k] = "." /\ \A m \in (k+1)..Len(name) : name[m] # "."
       IN SubSeq(name, i, Len(name))
  ELSE << >>

\* filepath.Dir, filepath.Base and filepath.Join(dir, name) on clean absolute paths
Root == << >>
Dir(p) == IF p = Root THEN Root ELSE SubSeq(p, 1, Len(p) - 1)
Base(p) == IF p = Root THEN << >> ELSE p[Len(p)]
Join(dir, name) == IF name = << >> THEN dir ELSE Append(dir, name)

\* A path string "/a/b" read as a path: the components between the slashes.
RECURSIVE SplitPath(_, _)
SplitPath(s, acc) ==
  IF s = << >> THEN (IF acc = << >> THEN << >> ELSE << acc >>)
  ELSE IF Head(s) = "/"
       THEN (IF acc = << >> THEN << >> ELSE << acc >>) \o SplitPath(Tail(s), << >>)
       ELSE SplitPath(Tail(s), Append(acc, Head(s)))
ParsePath(s) == SplitPath(s, << >>)

\* A path written as a string: "/" and the components joined by "/".
RECURSIVE PathString(_)
PathString(p) ==
  IF p = << >> THEN << "/" >>
  ELSE IF Len(p) = 1 THEN << "/" >> \o p[1]
  ELSE PathString(SubSeq(p, 1, Len(p) - 1)) \o << "/" >> \o p[Len(p)]

\* filepath.Abs: every path of the model is absolute and clean already
Abs(p) == p

\* the extensions of the textExt map
TextExts ==
  { <<".", "t", "x", "t">>, <<".", "m", "d">>, <<".", "g", "o">>, <<".", "p", "y">>,
    <<".", "j", "a", "v", "a">>, <<".", "c">>, <<".", "c", "p", "p">>,
    <<".", "j", "s", "o", "n">>, <<".", "y", "a", "m", "l">>, <<".", "y", "m", "l">>,
    <<".", "x", "m", "l">>, <<".", "h", "t", "m", "l">>, <<".", "c", "s", "s">>,
    <<".", "j", "s">>, <<".", "s", "h">> }

isTextFile(path) == ToLower(Ext(Base(path))) \in TextExts

DirPrefix == << "[", ":", ":", "b", "]", "[", "D", "I", "R", "]", " " >>
GoUpLabel == << "[", ".", ".", "]", " ", "G", "o", " ", "u", "p" >>


\* ------------------------------------------------------------------------
\* The file system (package os), as far as the program uses it
\* ------------------------------------------------------------------------

\* The names that occur in the modelled file system.
NAb == << "A", "b" >>
Nago == << "a", ".", "g", "o" >>
Nbgo == << "b", ".", "g", "o" >>
Nn == << "n" >>
Nu == << "u" >>
Nz == << "z" >>
Nsp == << " " >>
Nab == << "a", "b" >>
AllNames == { NAb, Nago, Nbgo, Nn, Nu, Nz, Nsp, Nab }

\* The paths of the model: at most two components.
PathsU == { Root } \cup { << a >> : a \in AllNames }
                   \cup { << a, b >> : a \in AllNames, b \in AllNames }
InU(p) == p \in PathsU

\* A file's content: runs of cnt lines of len bytes each (the newline
\* included), then tail bytes without a newline.
NoContent == [runs |-> << >>, tail |-> 0]
Lines(len, cnt) == [runs |-> << [len |-> len, cnt |-> cnt] >>, tail |-> 0]

\* A file system is a function from the existing paths to their nodes.
DirNode(r, w) == [k |-> "dir", r |-> r, w |-> w, c |-> NoContent]
FileNode(r, w, c) == [k |-> "file", r |-> r, w |-> w, c |-> c]

Exists(f, p) == p \in DOMAIN f
IsDir(f, p) == Exists(f, p) /\ f[p].k = "dir"
IsPrefix(p, q) == Len(p) <= Len(q) /\ SubSeq(q, 1, Len(p)) = p
ChildNames(f, p) == { n \in AllNames : Append(p, n) \in DOMAIN f }
Without(f, p) == [q \in DOMAIN f \ { p } |-> f[q]]
With(f, p, node) == [q \in DOMAIN f \cup { p } |-> IF q = p THEN node ELSE f[q]]

\* The sequence of the elements of a set of strings in byte order.
RECURSIVE SortNames(_)
SortNames(S) ==
  IF S = { } THEN << >>
  ELSE LET m == CHOOSE a \in S : \A b \in S \ { a } : StrLess(a, b)
       IN << m >> \o SortNames(S \ { m })

\* os.ReadDir: the entries sorted by filename, or an error
ReadDir(f, p) ==
  IF ~IsDir(f, p) \/ ~f[p].r
  THEN [err |-> TRUE, entries |-> << >>]
  ELSE LET names == SortNames(ChildNames(f, p))
       IN [err |-> FALSE,
           entries |-> [i \in 1..Len(names) |->
                          [name |-> names[i], isDir |-> IsDir(f, Append(p, names[i]))]]]

\* os.RemoveAll: nil for a missing path; removes what it can and reports the
\* first error
RECURSIVE RemoveAll(_, _)
RECURSIVE RemoveEach(_, _, _)
RemoveEach(f, p, names) ==
  IF names = << >> THEN [fs |-> f, err |-> FALSE]
  ELSE LET one == RemoveAll(f, Append(p, Head(names)))
           rest == RemoveEach(one.fs, p, Tail(names))
       IN [fs |-> rest.fs, err |-> one.err \/ rest.err]
RemoveAll(f, p) ==
  IF ~Exists(f, p) THEN [fs |-> f, err |-> FALSE]
  ELSE IF p = Root THEN [fs |-> f, err |-> TRUE]
  ELSE IF f[p].k = "file" \/ ~f[p].r
  THEN IF f[Dir(p)].w /\ ChildNames(f, p) = { }
       THEN [fs |-> Without(f, p), err |-> FALSE]
       ELSE [fs |-> f, err |-> TRUE]
  ELSE LET kids == RemoveEach(f, p, SortNames(ChildNames(f, p)))
       IN IF ~kids.err /\ f[Dir(p)].w
          THEN [fs |-> Without(kids.fs, p), err |-> FALSE]
          ELSE [fs |-> kids.fs, err |-> TRUE]

\* os.Rename(old, new) within one volume
Rename(f, old, new) ==
  LET fail == [fs |-> f, err |-> TRUE]
      moved == { q \in DOMAIN f : IsPrefix(old, q) }
      target(q) == new \o SubSeq(q, Len(old) + 1, Len(q))
  IN IF ~Exists(f, old) \/ old = Root \/ new = Root \/ ~InU(new) THEN fail
     ELSE IF ~IsDir(f, Dir(new)) \/ ~f[Dir(old)].w \/ ~f[Dir(new)].w THEN fail
     ELSE IF new = old THEN [fs |-> f, err |-> FALSE]
     ELSE IF IsPrefix(old, new) THEN fail
     ELSE IF Exists(f, new) /\ f[new].k # f[old].k THEN fail
     ELSE IF IsDir(f, new) /\ ChildNames(f, new) # { } THEN fail
     ELSE IF \E q \in moved : ~InU(target(q)) THEN fail
     ELSE [fs |-> [q \in (DOMAIN f \ moved) \cup { target(m) : m \in moved } |->
                     IF IsPrefix(new, q)
                     THEN f[old \o SubSeq(q, Len(new) + 1, Len(q))]
                     ELSE f[q]],
           err |-> FALSE]

\* os.MkdirAll(p, 0755)
RECURSIVE MkdirAll(_, _)
MkdirAll(f, p) ==
  IF Exists(f, p) THEN [fs |-> f, err |-> ~IsDir(f, p)]
  ELSE IF ~InU(p) THEN [fs |-> f, err |-> TRUE]
  ELSE LET up == MkdirAll(f, Dir(p))
       IN IF up.err \/ ~up.fs[Dir(p)].w THEN [fs |-> up.fs, err |-> TRUE]
          ELSE [fs |-> With(up.fs, p, DirNode(TRUE, TRUE)), err |-> FALSE]

\* os.Create(p): truncates an existing file, creates a missing one
Create(f, p) ==
  IF Exists(f, p)
  THEN IF f[p].k = "file" /\ f[p].w
       THEN [fs |-> With(f, p, FileNode(f[p].r, f[p].w, NoContent)), err |-> FALSE]
       ELSE [fs |-> f, err |-> TRUE]
  ELSE IF InU(p) /\ p # Root /\ IsDir(f, Dir(p)) /\ f[Dir(p)].w
       THEN [fs |-> With(f, p, FileNode(TRUE, TRUE, NoContent)), err |-> FALSE]
       ELSE [fs |-> f, err |-> TRUE]

\* ------------------------------------------------------------------------
\* copyPath and copyDir
\* ------------------------------------------------------------------------

RECURSIVE copyPath(_, _, _)
RECURSIVE copyDir(_, _, _)
RECURSIVE copyEntries(_, _, _, _)

copyPath(f, src, dst) ==
  IF ~Exists(f, src) THEN [fs |-> f, err |-> TRUE]
  ELSE IF IsDir(f, src) THEN copyDir(f, src, dst)
  ELSE IF ~f[src].r THEN [fs |-> f, err |-> TRUE]
  ELSE LET out == Create(f, dst)
       IN IF out.err THEN [fs |-> f, err |-> TRUE]
          ELSE [fs |-> With(out.fs, dst, [out.fs[dst] EXCEPT !.c = out.fs[src].c]),
                err |-> FALSE]

copyEntries(f, src, dst, entries) ==
  IF entries = << >> THEN [fs |-> f, err |-> FALSE]
  ELSE LET e == Head(entries)
           srcPath == Join(src, e.name)
           dstPath == Join(dst, e.name)
           one == IF e.isDir THEN copyDir(f, srcPath, dstPath)
                  ELSE copyPath(f, srcPath, dstPath)
       IN IF one.err THEN one ELSE copyEntries(one.fs, src, dst, Tail(entries))

copyDir(f, src, dst) ==
  LET rd == ReadDir(f, src)
  IN IF rd.err THEN [fs |-> f, err |-> TRUE]
     ELSE LET mk == MkdirAll(f, dst)
          IN IF mk.err THEN mk ELSE copyEntries(mk.fs, src, dst, rd.entries)

\* ------------------------------------------------------------------------
\* Config
\* ------------------------------------------------------------------------

PreviewMaxBytes == 200 * 1024
TextPreviewLines == 1000
\* len("\n... (truncated)")
MarkerLen == 16

\* ------------------------------------------------------------------------
\* The read loop of loadTextPreview
\* ------------------------------------------------------------------------

\* The reader before the first iteration: run and used give the position in
\* the content, n is the variable n, nl is strings.Count(buf.String(), "\n").
\* open is the number of bytes of buf after its last newline.
ReadInit == [run |-> 1, used |-> 0, n |-> 0, nl |-> 0, open |-> 0, stop |-> "none"]

\* One iteration of the loop `for n < PreviewMaxBytes`: ReadString('\n')
\* returns the whole next line whatever its length, or the rest of the file
\* with io.EOF.  stop tells how the loop ended: "eof" and "lines" are the two
\* breaks, "bytes" the loop condition.
ReadIter(c, st) ==
  IF st.run <= Len(c.runs)
  THEN LET r == c.runs[st.run]
           n2 == st.n + r.len
           nl2 == st.nl + 1
           last == st.used + 1 = r.cnt
       IN [run |-> IF last THEN st.run + 1 ELSE st.run,
           used |-> IF last THEN 0 ELSE st.used + 1,
           n |-> n2,
           nl |-> nl2,
           open |-> 0,
           stop |-> IF nl2 > TextPreviewLines THEN "lines"
                    ELSE IF n2 < PreviewMaxBytes THEN "none" ELSE "bytes"]
  ELSE [st EXCEPT !.n = st.n + c.tail, !.open = c.tail, !.stop = "eof"]

RECURSIVE ReadLoop(_, _)
ReadLoop(c, st) == IF st.stop # "none" THEN st ELSE ReadLoop(c, ReadIter(c, st))

\* text := buf.String(); the marker is appended when len(text) == PreviewMaxBytes
PreviewText(st) ==
  [n |-> st.n, nl |-> st.nl, open |-> st.open, stop |-> st.stop,
   marker |-> (st.n = PreviewMaxBytes)]

\* len(text), and the number of lines of file content in the text
TextLen(t) == t.n + (IF t.marker THEN MarkerLen ELSE 0)
TextLines(t) == t.nl + (IF t.open > 0 THEN 1 ELSE 0)

\* ------------------------------------------------------------------------
\* AppState and its methods.  Each method is an operator from the world w
\* before the call to the world after it.  The fields of w:
\*   fs                                       the file system
\*   currentDir, files, bookmarks, searchTerm the fields of AppState
\*   lock                                     AppState.lock: "free" or "held"
\*   items, cur                               filesList: its items, current item
\*   preview, status                          the text of the two text views
\*   root                                     the root primitive of the app
\*   updates                                  the queued updates of the app
\*   ctl         the event-loop goroutine: "run", "blocked" (in Lock for
\*               ever), "panicked" or "stopped"
\*   sleepers    the goroutines of setupKeys that have not yet run
\*               loadPreviewForSelection
\*   loaders     the goroutines running loadTextPreview
\*   reqs, shown, filesOf, h     history, not state of the program: the
\*               number of preview requests made so far, the latest request
\*               whose text has been written to the preview pane, the
\*               directory s.files was read from, and what the last step did
\* ------------------------------------------------------------------------

\* the root primitives
Layout == [t |-> "layout"]
ConfirmModal(path, name) == [t |-> "confirm", path |-> path, name |-> name]
InputForm(kind, name, old) == [t |-> "form", kind |-> kind, name |-> name, old |-> old]
BookmarkList(list) == [t |-> "bookmarks", list |-> list]
MessageModal(msg, done) == [t |-> "message", msg |-> msg, done |-> done]

\* the texts of the preview pane
PvEmpty == [k |-> "empty"]
PvLoading(req) == [k |-> "loading", req |-> req]
PvText(req, path, text) == [k |-> "text", req |-> req, path |-> path, text |-> text]
PvError(req) == [k |-> "error", req |-> req]
PvDir(name) == [k |-> "dir", name |-> name]
PvMeta(name) == [k |-> "meta", name |-> name]
PvNoStat == [k |-> "nostat"]
PvNoText == [k |-> "notext"]

\* app.QueueUpdateDraw(f): f is run later, by the event loop
QueueUpdateDraw(w, u) == [w EXCEPT !.updates = Append(@, u)]

\* app.Stop()
Stop(w) == [w EXCEPT !.ctl = "stopped"]

updateStatus(w, msg) == QueueUpdateDraw(w, [t |-> "status", msg |-> msg])

\* the less function of sortFiles
less(a, b) ==
  IF a.isDir /\ ~b.isDir THEN TRUE
  ELSE IF ~a.isDir /\ b.isDir THEN FALSE
  ELSE StrLess(ToLower(a.name), ToLower(b.name))

\* sort.Slice(slice, less) is not stable: every order of S in which no entry
\* is less than an earlier one is a possible result.
RECURSIVE SortOrders(_)
SortOrders(S) ==
  IF S = { } THEN { << >> }
  ELSE UNION { { << m >> \o t : t \in SortOrders(S \ { m }) } :
               m \in { e \in S : \A o \in S : ~less(o, e) } }

Range(q) == { q[i] : i \in 1..Len(q) }

\* sortFiles: s.lock.Lock() first.  sync.Mutex is not reentrant: a caller
\* that holds the lock blocks for ever.
sortFiles(w) ==
  IF w.lock = "held" THEN [w EXCEPT !.ctl = "blocked"]
  ELSE [w EXCEPT !.files = CHOOSE o \in SortOrders(Range(w.files)) : TRUE]

\* loadFiles: Lock, ReadDir, and on success s.files = entries and sortFiles()
\* with the lock held; the deferred Unlock runs when the function returns.
loadFiles(w) ==
  IF w.lock = "held" THEN [w EXCEPT !.ctl = "blocked"]
  ELSE LET rd == ReadDir(w.fs, w.currentDir)
       IN IF rd.err THEN w
          ELSE LET sorted == sortFiles([w EXCEPT !.lock = "held", !.files = rd.entries,
                                                  !.filesOf = w.currentDir])
               IN IF sorted.ctl = "run" THEN [sorted EXCEPT !.lock = "free"] ELSE sorted

\* refreshList: the error of loadFiles is dropped; the list is rebuilt by a
\* queued update.
refreshList(w) ==
  LET loaded == loadFiles([w EXCEPT !.h.refreshed = TRUE])
  IN IF loaded.ctl # "run" THEN loaded
     ELSE QueueUpdateDraw(loaded, [t |-> "list", op |-> loaded.h.op.kind])

\* the items the queued update of refreshList adds for the entries
\* ListItems comparing the lower-cased name with the filter as typed
RECURSIVE ListItems_CaseSensitive(_, _)
ListItems_CaseSensitive(entries, term) ==
  IF entries = << >> THEN << >>
  ELSE LET e == Head(entries)
           rest == ListItems_CaseSensitive(Tail(entries), term)
       IN IF term # << >> /\ ~Contains(ToLower(e.name), term)
          THEN rest
          ELSE << [label |-> IF e.isDir THEN DirPrefix \o e.name ELSE e.name,
                   sel |-> [t |-> "enter", entry |-> e]] >> \o rest

RECURSIVE ListItems(_, _)
ListItems(entries, term) ==
  IF entries = << >> THEN << >>
  ELSE LET e == Head(entries)
           rest == ListItems(Tail(entries), term)
       IN IF term # << >> /\ ~Contains(ToLower(e.name), ToLower(term))
          THEN rest
          ELSE << [label |-> IF e.isDir THEN DirPrefix \o e.name ELSE e.name,
                   sel |-> [t |-> "enter", entry |-> e]] >> \o rest

\* the queued update without Clear and SetCurrentItem(0): the current item
\* stays where it was
RefreshUpdate_KeepCurrent(w) ==
  LET entries == ListItems(w.files, w.searchTerm)
      up == IF Dir(w.currentDir) # w.currentDir
            THEN << [label |-> GoUpLabel, sel |-> [t |-> "up"]] >>
            ELSE << >>
  IN updateStatus([w EXCEPT !.items = entries \o up], "Ready")

\* the queued update of refreshList (lines 172-202)
RefreshUpdate(w) ==
  LET entries == ListItems(w.files, w.searchTerm)
      up == IF Dir(w.currentDir) # w.currentDir
            THEN << [label |-> GoUpLabel, sel |-> [t |-> "up"]] >>
            ELSE << >>
  IN updateStatus([w EXCEPT !.items = entries \o up, !.cur = 0], "Ready")

showModal(w, msg, done) == [w EXCEPT !.root = MessageModal(msg, done)]

\* ------------------------------------------------------------------------
\* Previews
\* ------------------------------------------------------------------------

\* what the last step did, at its start
NoOp == [kind |-> "none", err |-> FALSE, text |-> << >>]
H0(ev) ==
  [ev |-> ev,            \* the step
   refreshed |-> FALSE,  \* refreshList was called
   cd |-> << >>,         \* the calls of changeDir: [dir, ok]
   op |-> NoOp,          \* the file operation carried out, and its error
   form |-> "none",      \* the kind of the input form that was closed
   text |-> << >>,       \* the text submitted with it
   bm |-> << >>,         \* the bookmarks before the last toggles at this place
   after |-> "none",     \* the file operation whose refresh rebuilt the list
   target |-> << >>]     \* the paths loadPreviewForSelection made a preview for

\* loadTextPreview(path) called on the event loop (openPreview): both updates
\* are queued by the one call
loadTextPreview(w, path) ==
  LET req == w.reqs + 1
      w1 == QueueUpdateDraw([w EXCEPT !.reqs = req], [t |-> "preview", pv |-> PvLoading(req)])
  IN IF ~Exists(w.fs, path) \/ ~w.fs[path].r
     THEN QueueUpdateDraw(w1, [t |-> "preview", pv |-> PvError(req)])
     ELSE QueueUpdateDraw(w1,
            [t |-> "preview",
             pv |-> PvText(req, path, PreviewText(ReadLoop(w.fs[path].c, ReadInit)))])

\* `go s.loadTextPreview(path)`: a new goroutine at the start of the function
GoLoadTextPreview(w, path) ==
  [w EXCEPT !.reqs = w.reqs + 1,
            !.loaders = @ \cup { [req |-> w.reqs + 1, path |-> path, pc |-> "start",
                                   c |-> NoContent, rs |-> ReadInit] }]

openPreview(w, path) ==
  IF isTextFile(path) THEN loadTextPreview(w, path)
  ELSE [w EXCEPT !.preview = PvNoText]

\* loadPreviewForSelection: writes s.preview on the calling goroutine
loadPreviewForSelection(w) ==
  LET index == w.cur
  IN IF index < 0 \/ index >= Len(w.items) THEN [w EXCEPT !.preview = PvEmpty]
     ELSE LET name == TrimPrefix(w.items[index + 1].label, DirPrefix)
              path == Join(w.currentDir, name)
              wp == [w EXCEPT !.h.target = Append(@, path)]
          IN IF name = GoUpLabel THEN [w EXCEPT !.preview = PvEmpty]
             ELSE IF IsDir(w.fs, path) THEN [wp EXCEPT !.preview = PvDir(name)]
             ELSE IF isTextFile(path) THEN GoLoadTextPreview(wp, path)
             ELSE IF Exists(w.fs, path) THEN [wp EXCEPT !.preview = PvMeta(name)]
             ELSE [wp EXCEPT !.preview = PvNoStat]

\* ------------------------------------------------------------------------
\* Navigation
\* ------------------------------------------------------------------------

\* changeDir that keeps the search filter
changeDir_KeepFilter(w, dir) ==
  IF w.ctl # "run" THEN w
  ELSE LET abs == Abs(dir)
       IN IF ~IsDir(w.fs, abs)
          THEN showModal([w EXCEPT !.h.cd = Append(@, [dir |-> dir, ok |-> FALSE])],
                         "Not a directory", "none")
          ELSE LET w1 == [w EXCEPT !.currentDir = abs,
                                   !.h.cd = Append(@, [dir |-> dir, ok |-> TRUE])]
                   w2 == refreshList(w1)
               IN IF w2.ctl # "run" THEN w2 ELSE loadPreviewForSelection(w2)

changeDir(w, dir) ==
  IF w.ctl # "run" THEN w
  ELSE LET abs == Abs(dir)
       IN IF ~IsDir(w.fs, abs)
          THEN showModal([w EXCEPT !.h.cd = Append(@, [dir |-> dir, ok |-> FALSE])],
                         "Not a directory", "none")
          ELSE LET w1 == [w EXCEPT !.currentDir = abs,
                                   !.searchTerm = << >>,
                                   !.h.cd = Append(@, [dir |-> dir, ok |-> TRUE])]
                   w2 == refreshList(w1)
               IN IF w2.ctl # "run" THEN w2 ELSE loadPreviewForSelection(w2)

onEnter(w, entry) ==
  IF entry.isDir THEN changeDir(w, Join(w.currentDir, entry.name))
  ELSE openPreview(w, Join(w.currentDir, entry.name))

\* the selected function of an item of filesList (lines 186-188, 192-194)
ItemSelected(w, item) ==
  IF item.sel.t = "up" THEN changeDir(w, Dir(w.currentDir))
  ELSE onEnter(w, item.sel.entry)

\* the function given to filesList.SetSelectedFunc (lines 581-600)
ListSelected(w, idx) ==
  IF w.ctl # "run" \/ idx < 0 \/ idx >= Len(w.items) THEN w
  ELSE LET name == TrimPrefix(w.items[idx + 1].label, DirPrefix)
           path == Join(w.currentDir, name)
       IN IF name = GoUpLabel THEN changeDir(w, Dir(w.currentDir))
          ELSE IF IsDir(w.fs, path) THEN changeDir(w, path)
          ELSE openPreview(w, path)

\* ------------------------------------------------------------------------
\* File operations
\* ------------------------------------------------------------------------

\* filesList.GetItemText(idx) panics when idx is not the index of an item;
\* otherwise the name of the current item without the directory tag
NoItem(w) == w.cur >= Len(w.items)
SelName(w) == TrimPrefix(w.items[w.cur + 1].label, DirPrefix)
Panic(w) == [w EXCEPT !.ctl = "panicked"]

deleteSelection(w) ==
  IF w.cur < 0 THEN w
  ELSE IF NoItem(w) THEN Panic(w)
  ELSE [w EXCEPT !.root = ConfirmModal(Join(w.currentDir, SelName(w)), SelName(w))]

\* the done function that deletes whatever the answer is
deleteDone_IgnoreAnswer(w, ok) ==
  LET w1 == [w EXCEPT !.root = Layout]
      path == w.root.path
  IN LET rm == RemoveAll(w1.fs, path)
         w2 == [w1 EXCEPT !.fs = rm.fs,
                          !.h.op = [kind |-> "delete", err |-> rm.err, text |-> << >>]]
     IN IF rm.err THEN showModal(w2, "Delete failed", "none")
        ELSE refreshList(updateStatus(w2, "Deleted"))

\* the done function of the confirmation of deleteSelection (lines 345-348, 361-372)
deleteDone(w, ok) ==
  LET w1 == [w EXCEPT !.root = Layout]
      path == w.root.path
  IN IF ~ok THEN w1
     ELSE LET rm == RemoveAll(w1.fs, path)
              w2 == [w1 EXCEPT !.fs = rm.fs,
                               !.h.op = [kind |-> "delete", err |-> rm.err, text |-> << >>]]
          IN IF rm.err THEN showModal(w2, "Delete failed", "none")
             ELSE refreshList(updateStatus(w2, "Deleted"))

renameSelection(w) ==
  IF w.cur < 0 THEN w
  ELSE IF NoItem(w) THEN Panic(w)
  ELSE [w EXCEPT !.root = InputForm("rename", SelName(w), Join(w.currentDir, SelName(w)))]

\* a name is accepted when it is not blank
Blank(text) == TrimSpace(text) = << >>

\* renameDone that refuses the empty name only
renameDone_NoTrim(w, text, ok) ==
  LET w1 == [w EXCEPT !.root = Layout]
      old == w.root.old
  IN IF ~ok \/ text = << >> THEN w1
     ELSE LET newPath == Join(w1.currentDir, text)
              mv == Rename(w1.fs, old, newPath)
              w2 == [w1 EXCEPT !.fs = mv.fs,
                               !.h.op = [kind |-> "rename", err |-> mv.err, text |-> text]]
          IN IF mv.err THEN showModal(w2, "Rename failed", "none")
             ELSE refreshList(updateStatus(w2, "Renamed"))

\* the done function of the input of renameSelection (lines 384-396)
renameDone(w, text, ok) ==
  LET w1 == [w EXCEPT !.root = Layout]
      old == w.root.old
  IN IF ~ok \/ Blank(text) THEN w1
     ELSE LET newPath == Join(w1.currentDir, text)
              mv == Rename(w1.fs, old, newPath)
              w2 == [w1 EXCEPT !.fs = mv.fs,
                               !.h.op = [kind |-> "rename", err |-> mv.err, text |-> text]]
          IN IF mv.err THEN showModal(w2, "Rename failed", "none")
             ELSE refreshList(updateStatus(w2, "Renamed"))

copySelection(w) ==
  IF w.cur < 0 THEN w
  ELSE IF NoItem(w) THEN Panic(w)
  ELSE [w EXCEPT !.root = InputForm("copy", SelName(w), << >>)]

\* the done function of the input of copySelection (lines 406-418)
copyDone(w, text, ok) ==
  LET w1 == [w EXCEPT !.root = Layout]
      name == w.root.name
  IN IF ~ok \/ Blank(text) THEN w1
     ELSE LET cp == copyPath(w1.fs, Join(w1.currentDir, name), ParsePath(text))
              w2 == [updateStatus(w1, "Copying") EXCEPT
                       !.fs = cp.fs,
                       !.h.op = [kind |-> "copy", err |-> cp.err, text |-> text]]
          IN IF cp.err THEN showModal(w2, "Copy failed", "none")
             ELSE refreshList(updateStatus(w2, "Copied"))

moveSelection(w) ==
  IF w.cur < 0 THEN w
  ELSE IF NoItem(w) THEN Panic(w)
  ELSE [w EXCEPT !.root = InputForm("move", SelName(w), Join(w.currentDir, SelName(w)))]

\* the done function of the input of moveSelection (lines 429-440)
moveDone(w, text, ok) ==
  LET w1 == [w EXCEPT !.root = Layout]
      old == w.root.old
  IN IF ~ok \/ Blank(text) THEN w1
     ELSE LET mv == Rename(w1.fs, old, ParsePath(text))
              w2 == [w1 EXCEPT !.fs = mv.fs,
                               !.h.op = [kind |-> "move", err |-> mv.err, text |-> text]]
          IN IF mv.err THEN showModal(w2, "Move failed", "none")
             ELSE refreshList(updateStatus(w2, "Moved"))

\* ------------------------------------------------------------------------
\* Bookmarks, search, help
\* ------------------------------------------------------------------------

\* append(s[:i], s[i+1:]...), i counted from 1
RemoveAt(q, i) == SubSeq(q, 1, i - 1) \o SubSeq(q, i + 1, Len(q))

\* toggleBookmark that cuts the list at the bookmark it removes
toggleBookmark_Truncate(w) ==
  IF \E i \in 1..Len(w.bookmarks) : w.bookmarks[i] = w.currentDir
  THEN LET i == CHOOSE k \in 1..Len(w.bookmarks) :
                  /\ w.bookmarks[k] = w.currentDir
                  /\ \A j \in 1..(k - 1) : w.bookmarks[j] # w.currentDir
       IN updateStatus([w EXCEPT !.bookmarks = SubSeq(@, 1, i - 1)], "Removed bookmark")
  ELSE updateStatus([w EXCEPT !.bookmarks = Append(@, w.currentDir)], "Bookmarked")

toggleBookmark(w) ==
  IF \E i \in 1..Len(w.bookmarks) : w.bookmarks[i] = w.currentDir
  THEN LET i == CHOOSE k \in 1..Len(w.bookmarks) :
                  /\ w.bookmarks[k] = w.currentDir
                  /\ \A j \in 1..(k - 1) : w.bookmarks[j] # w.currentDir
       IN updateStatus([w EXCEPT !.bookmarks = RemoveAt(@, i)], "Removed bookmark")
  ELSE updateStatus([w EXCEPT !.bookmarks = Append(@, w.currentDir)], "Bookmarked")

listBookmarks(w) ==
  IF Len(w.bookmarks) = 0 THEN showModal(w, "No bookmarks set", "none")
  ELSE [w EXCEPT !.root = BookmarkList(w.bookmarks)]

promptSearch(w) == [w EXCEPT !.root = InputForm("search", << >>, << >>)]

\* the done function of the input of promptSearch (lines 526-532)
searchDone(w, text, ok) ==
  LET w1 == [w EXCEPT !.root = Layout]
  IN IF ~ok THEN w1
     ELSE refreshList([w1 EXCEPT !.searchTerm = text])

showHelp(w) == showModal(w, "Keys", "layout")

\* ------------------------------------------------------------------------
\* Bounds of the model
\* ------------------------------------------------------------------------

\* updates that may be queued at once
MaxQueue == 3
\* goroutines of setupKeys waiting to call loadPreviewForSelection that are
\* counted: sleepers = MaxSleepers stands for "MaxSleepers or more"
MaxSleepers == 1
\* preview requests (calls of loadTextPreview) in one behaviour
MaxReq == 2

\* ------------------------------------------------------------------------
\* State
\* ------------------------------------------------------------------------

VARIABLES fs, currentDir, files, bookmarks, searchTerm, lock, items, cur,
          preview, status, root, updates, ctl, sleepers, loaders, reqs, shown,
          filesOf, h

vars == << fs, currentDir, files, bookmarks, searchTerm, lock, items, cur,
           preview, status, root, updates, ctl, sleepers, loaders, reqs, shown,
          filesOf, h >>

World ==
  [fs |-> fs, currentDir |-> currentDir, files |-> files, bookmarks |-> bookmarks,
   searchTerm |-> searchTerm, lock |-> lock, items |-> items, cur |-> cur,
   preview |-> preview, status |-> status, root |-> root, updates |-> updates,
   ctl |-> ctl, sleepers |-> sleepers, loaders |-> loaders, reqs |-> reqs,
   shown |-> shown, filesOf |-> filesOf, h |-> h]

SetWorld(w) ==
  /\ fs' = w.fs /\ currentDir' = w.currentDir /\ files' = w.files
  /\ bookmarks' = w.bookmarks /\ searchTerm' = w.searchTerm /\ lock' = w.lock
  /\ items' = w.items /\ cur' = w.cur /\ preview' = w.preview /\ status' = w.status
  /\ root' = w.root /\ updates' = w.updates /\ ctl' = w.ctl
  /\ sleepers' = w.sleepers /\ loaders' = w.loaders /\ reqs' = w.reqs
  /\ shown' = w.shown /\ filesOf' = w.filesOf /\ h' = w.h

\* the world at the start of the step ev
W0(ev) == [World EXCEPT !.h = H0(ev)]

Fits(w) ==
  /\ Len(w.updates) <= MaxQueue
  /\ w.reqs <= MaxReq

\* a step of the event loop
Event(w) == ctl = "run" /\ Fits(w) /\ SetWorld(w)

\* a step of a background goroutine: they run on while the event loop is blocked
Background(w) == ctl \in { "run", "blocked" } /\ Fits(w) /\ SetWorld(w)

\* ------------------------------------------------------------------------
\* The initial state: what main hands to app.Run
\* ------------------------------------------------------------------------

FS0 ==
  (Root :> DirNode(TRUE, TRUE))
  @@ (<< NAb >> :> DirNode(TRUE, TRUE))
  @@ (<< NAb, Nago >> :> FileNode(TRUE, TRUE, Lines(2, 1)))
  @@ (<< NAb, Nn >> :> FileNode(FALSE, TRUE, Lines(1, 1)))
  @@ (<< Nu >> :> DirNode(FALSE, TRUE))
  @@ (<< Nu, Nago >> :> FileNode(TRUE, TRUE, Lines(3, 1)))
  @@ (<< Nago >> :> FileNode(TRUE, TRUE, Lines(1, 2)))
  @@ (<< Nbgo >> :> FileNode(TRUE, TRUE, [runs |-> << >>, tail |-> 1]))

InitDirs == { Root, << NAb >> }

Init ==
  /\ fs = FS0
  /\ currentDir \in InitDirs
  /\ files \in SortOrders(Range(ReadDir(fs, currentDir).entries))
  /\ bookmarks = << >>
  /\ searchTerm = << >>
  /\ lock = "free"
  /\ items = ListItems(files, << >>)
               \o (IF Dir(currentDir) # currentDir
                   THEN << [label |-> GoUpLabel, sel |-> [t |-> "up"]] >> ELSE << >>)
  /\ cur = 0
  /\ preview = PvEmpty
  /\ status = [dir |-> currentDir, msg |-> "Ready"]
  /\ root = Layout
  /\ updates = << >>
  /\ ctl = "run"
  /\ sleepers = 0
  /\ loaders = { }
  /\ reqs = 0
  /\ shown = 0
  /\ filesOf = currentDir
  /\ h = H0("Init")

\* ------------------------------------------------------------------------
\* Key events: the input capture of setupKeys (lines 602-648), then the
\* input handler of the root primitive
\* ------------------------------------------------------------------------

\* lines 643-646: `go func() { time.Sleep(...); s.loadPreviewForSelection() }()`
Spawn(w) ==
  IF w.ctl \in { "run", "stopped" }
  THEN [w EXCEPT !.sleepers = IF @ < MaxSleepers THEN @ + 1 ELSE @]
  ELSE w

KeyQuit == Event(Spawn(Stop(W0("KeyQuit"))))

\* Esc stops the app; a bookmark list then runs its done function
KeyEsc ==
  LET w1 == Spawn(Stop(W0("KeyEsc")))
  IN Event(IF root.t = "bookmarks" THEN [w1 EXCEPT !.root = Layout] ELSE w1)

\* systemOpen starts a process and changes nothing of the state
KeyOpen ==
  LET w == W0("KeyOpen")
  IN Event(Spawn(IF w.cur < 0 THEN w ELSE IF NoItem(w) THEN Panic(w) ELSE w))

KeyDelete == Event(Spawn(deleteSelection(W0("KeyDelete"))))
KeyRename == Event(Spawn(renameSelection(W0("KeyRename"))))
KeyCopy == Event(Spawn(copySelection(W0("KeyCopy"))))
KeyMove == Event(Spawn(moveSelection(W0("KeyMove"))))
KeyBookmark ==
  Event([Spawn(toggleBookmark(W0("KeyBookmark"))) EXCEPT
           !.h.bm = (IF h.ev = "KeyBookmark" THEN << h.bm[Len(h.bm)] >> ELSE << >>)
                      \o << bookmarks >>])
KeyListBook == Event(Spawn(listBookmarks(W0("KeyListBook"))))
KeySearch == Event(Spawn(promptSearch(W0("KeySearch"))))
KeyHelp == Event(Spawn(showHelp(W0("KeyHelp"))))
KeyBackspace == Event(Spawn(changeDir(W0("KeyBackspace"), Dir(currentDir))))

\* any other key: a character typed into a field, Tab, an arrow in a modal
KeyOther == Event(Spawn(W0("KeyOther")))

\* Up and Down move the current item of the focused file list, wrapping around
KeyUp ==
  /\ root.t = "layout" /\ items # << >>
  /\ Event([Spawn(W0("KeyUp")) EXCEPT !.cur = IF cur = 0 THEN Len(items) - 1 ELSE cur - 1])
KeyDown ==
  /\ root.t = "layout" /\ items # << >>
  /\ Event([Spawn(W0("KeyDown")) EXCEPT !.cur = IF cur + 1 >= Len(items) THEN 0 ELSE cur + 1])

\* Enter on the file list: the selected function of the item, then the one
\* of the list
KeyEnter ==
  /\ root.t = "layout" /\ cur < Len(items)
  /\ Event(ListSelected(ItemSelected(Spawn(W0("KeyEnter")), items[cur + 1]), cur))

\* ------------------------------------------------------------------------
\* Buttons and list items of the overlays, by Enter (through the input
\* capture) or by the mouse
\* ------------------------------------------------------------------------

Pressed(ev, byKey) == IF byKey THEN Spawn(W0(ev)) ELSE W0(ev)

ConfirmYes == root.t = "confirm" /\ \E k \in BOOLEAN : Event(deleteDone(Pressed("ConfirmYes", k), TRUE))
ConfirmNo == root.t = "confirm" /\ \E k \in BOOLEAN : Event(deleteDone(Pressed("ConfirmNo", k), FALSE))

\* the texts a field may hold when OK is pressed
NameTexts == { << >>, << " " >>, Nn, Nz, NAb }
PathTexts == { << >>, << " " >>, PathString(<< Nz >>), PathString(<< NAb >>),
               PathString(<< Nago >>), PathString(<< NAb, Nago >>) }
SearchTexts == { << >>, << "A" >>, << "n" >>, << "z" >> }

formDone(w, text, ok) ==
  CASE w.root.kind = "rename" -> renameDone(w, text, ok)
    [] w.root.kind = "copy" -> copyDone(w, text, ok)
    [] w.root.kind = "move" -> moveDone(w, text, ok)
    [] w.root.kind = "search" -> searchDone(w, text, ok)

FormTexts(kind) ==
  CASE kind = "rename" -> NameTexts
    [] kind \in { "copy", "move" } -> PathTexts
    [] kind = "search" -> SearchTexts

FormOK ==
  /\ root.t = "form"
  /\ \E k \in BOOLEAN, text \in FormTexts(root.kind) :
       Event([formDone(Pressed("FormOK", k), text, TRUE) EXCEPT
                !.h.form = root.kind, !.h.text = text])
FormCancel ==
  /\ root.t = "form"
  /\ \E k \in BOOLEAN :
       Event([formDone(Pressed("FormCancel", k), << >>, FALSE) EXCEPT !.h.form = root.kind])

\* the OK button of a modal of showModal: its done function restores the
\* layout (showHelp) or does nothing (every other caller)
MessageOK ==
  /\ root.t = "message"
  /\ \E k \in BOOLEAN :
       LET w == Pressed("MessageOK", k)
       IN Event(IF w.root.done = "layout" THEN [w EXCEPT !.root = Layout] ELSE w)

\* an item of the bookmark list: changeDir(bb)
BookmarkSelect ==
  /\ root.t = "bookmarks"
  /\ \E k \in BOOLEAN, i \in 1..Len(root.list) :
       Event(changeDir(Pressed("BookmarkSelect", k), root.list[i]))

\* ------------------------------------------------------------------------
\* The event loop runs the queued updates, one at a time and in order
\* ------------------------------------------------------------------------

Dequeued(ev) == [W0(ev) EXCEPT !.updates = Tail(@)]

UpdateList ==
  /\ updates # << >> /\ Head(updates).t = "list"
  /\ Event([RefreshUpdate(Dequeued("UpdateList")) EXCEPT !.h.after = Head(updates).op])

\* the update of updateStatus (lines 309-311) reads s.currentDir when it runs
UpdateStatus ==
  /\ updates # << >> /\ Head(updates).t = "status"
  /\ Event([Dequeued("UpdateStatus") EXCEPT
              !.status = [dir |-> currentDir, msg |-> Head(updates).msg]])

\* the updates of loadTextPreview (lines 269, 273, 303-305): s.preview.SetText
UpdatePreview ==
  /\ updates # << >> /\ Head(updates).t = "preview"
  /\ LET pv == Head(updates).pv
     IN Event([Dequeued("UpdatePreview") EXCEPT
                 !.preview = pv,
                 !.shown = IF pv.k = "text" /\ pv.req > @ THEN pv.req ELSE @])

\* ------------------------------------------------------------------------
\* Background goroutines
\* ------------------------------------------------------------------------

\* a goroutine of setupKeys wakes up and calls loadPreviewForSelection
SleeperRun ==
  /\ sleepers > 0
  /\ \E left \in (IF sleepers = MaxSleepers THEN { sleepers - 1, sleepers }
                   ELSE { sleepers - 1 }) :
       Background(loadPreviewForSelection([W0("SleeperRun") EXCEPT !.sleepers = left]))

Became(w, l, l2) == [w EXCEPT !.loaders = (@ \ { l }) \cup l2]

\* line 269
LoaderStart ==
  \E l \in loaders :
    /\ l.pc = "start"
    /\ Background(QueueUpdateDraw(Became(W0("LoaderStart"), l, { [l EXCEPT !.pc = "open"] }),
                                  [t |-> "preview", pv |-> PvLoading(l.req)]))

\* lines 271-276: os.Open; the file is read as it is now
LoaderOpen ==
  \E l \in loaders :
    /\ l.pc = "open"
    /\ Background(
         IF ~Exists(fs, l.path) \/ ~fs[l.path].r
         THEN QueueUpdateDraw(Became(W0("LoaderOpen"), l, { }),
                              [t |-> "preview", pv |-> PvError(l.req)])
         ELSE Became(W0("LoaderOpen"), l, { [l EXCEPT !.pc = "read", !.c = fs[l.path].c] }))

\* lines 282-296: one iteration of the read loop
LoaderIter ==
  \E l \in loaders :
    /\ l.pc = "read" /\ l.rs.stop = "none"
    /\ Background(Became(W0("LoaderIter"), l, { [l EXCEPT !.rs = ReadIter(l.c, l.rs)] }))

\* lines 298-305: the text, with the marker, is queued for the preview pane
LoaderDeliver ==
  \E l \in loaders :
    /\ l.pc = "read" /\ l.rs.stop # "none"
    /\ Background(QueueUpdateDraw(Became(W0("LoaderDeliver"), l, { }),
                                  [t |-> "preview",
                                   pv |-> PvText(l.req, l.path, PreviewText(l.rs))]))

\* ------------------------------------------------------------------------
\* The program
\* ------------------------------------------------------------------------

\* The whole program: the event loop with the key events, the overlays and
\* the queued updates, and the background goroutines.
Next ==
  \/ KeyQuit \/ KeyEsc \/ KeyOpen \/ KeyDelete \/ KeyRename \/ KeyCopy \/ KeyMove
  \/ KeyBookmark \/ KeyListBook \/ KeySearch \/ KeyHelp \/ KeyBackspace \/ KeyOther
  \/ KeyUp \/ KeyDown \/ KeyEnter
  \/ ConfirmYes \/ ConfirmNo \/ FormOK \/ FormCancel \/ MessageOK \/ BookmarkSelect
  \/ UpdateList \/ UpdateStatus \/ UpdatePreview
  \/ SleeperRun \/ LoaderStart \/ LoaderOpen \/ LoaderIter \/ LoaderDeliver

Spec == Init /\ [][Next]_vars

\* The state space of Spec is too large to be explored in full; the claims
\* are checked under the following specifications, each the program with the
\* user restricted to some of the keys.

\* Navigation and search.
NextNav ==
  \/ KeyUp \/ KeyDown \/ KeyEnter \/ KeyBackspace \/ KeySearch
  \/ FormOK \/ FormCancel \/ MessageOK \/ KeyQuit
  \/ UpdateList \/ UpdateStatus

SpecNav == Init /\ [][NextNav]_vars

\* The file operations.
NextOps ==
  \/ KeyUp \/ KeyDown \/ KeyDelete \/ KeyRename \/ KeyCopy \/ KeyMove \/ KeyHelp
  \/ ConfirmYes \/ ConfirmNo \/ FormOK \/ FormCancel \/ MessageOK
  \/ UpdateStatus

SpecOps == Init /\ [][NextOps]_vars

\* Browsing with the background goroutines of the preview.
NextPreview ==
  \/ KeyUp \/ KeyDown \/ KeyOther
  \/ SleeperRun \/ LoaderStart \/ LoaderOpen \/ LoaderIter \/ LoaderDeliver
  \/ UpdatePreview

SpecPreview == Init /\ [][NextPreview]_vars

\* Navigation and search with the deletion of entries.
NextDelete ==
  \/ KeyUp \/ KeyDown \/ KeyEnter \/ KeySearch \/ KeyDelete
  \/ ConfirmYes \/ ConfirmNo \/ FormOK \/ FormCancel \/ MessageOK
  \/ UpdateList \/ UpdateStatus

SpecDelete == Init /\ [][NextDelete]_vars

\* The directory read and the sort of a load on their own: a current
\* directory with any entries of these names, each a directory or a file.
SortedNames == { NAb, Nab, Nbgo, Nz }
SortedKinds == { "none", "dir", "file" }

InitSort ==
  /\ \E kind \in [SortedNames -> SortedKinds] :
       fs = [p \in { Root } \cup { << n >> : n \in { m \in SortedNames : kind[m] # "none" } } |->
               IF p = Root \/ kind[p[1]] = "dir" THEN DirNode(TRUE, TRUE)
               ELSE FileNode(TRUE, TRUE, NoContent)]
  /\ currentDir = Root
  /\ files = << >>
  /\ bookmarks = << >>
  /\ searchTerm = << >>
  /\ lock = "free"
  /\ items = << >>
  /\ cur = 0
  /\ preview = PvEmpty
  /\ status = [dir |-> currentDir, msg |-> "Ready"]
  /\ root = Layout
  /\ updates = << >>
  /\ ctl = "run"
  /\ sleepers = 0
  /\ loaders = { }
  /\ reqs = 0
  /\ shown = 0
  /\ filesOf = currentDir
  /\ h = H0("Init")

\* lines 137-142 and 149-166: os.ReadDir, s.files = entries and sort.Slice
\* with the less function of sortFiles, the two Lock calls left aside
SortedLoad ==
  LET rd == ReadDir(fs, currentDir)
  IN /\ h.ev = "Init" /\ ~rd.err
     /\ \E o \in SortOrders(Range(rd.entries)) :
          Event([W0("SortedLoad") EXCEPT !.files = o, !.filesOf = currentDir])

NextSort == SortedLoad

SpecSort == InitSort /\ [][NextSort]_vars

\* main after NewAppState: line 661, state.loadFiles()
MainLoadFiles == h.ev = "Init" /\ Event(loadFiles(W0("MainLoadFiles")))

NextMain == MainLoadFiles

SpecMain == InitSort /\ [][NextMain]_vars

\* toggleBookmark on its own: any duplicate-free list of bookmarks.
BookmarkDirs == { Root, << NAb >>, << Nu >> }

RECURSIVE NoDupSeqs(_)
NoDupSeqs(S) ==
  { << >> } \cup UNION { { << e >> \o t : t \in NoDupSeqs(S \ { e }) } : e \in S }

InitBookmark ==
  /\ fs = FS0
  /\ currentDir \in InitDirs
  /\ files \in SortOrders(Range(ReadDir(fs, currentDir).entries))
  /\ bookmarks \in NoDupSeqs(BookmarkDirs)
  /\ searchTerm = << >>
  /\ lock = "free"
  /\ items = ListItems(files, << >>)
               \o (IF Dir(currentDir) # currentDir
                   THEN << [label |-> GoUpLabel, sel |-> [t |-> "up"]] >> ELSE << >>)
  /\ cur = 0
  /\ preview = PvEmpty
  /\ status = [dir |-> currentDir, msg |-> "Ready"]
  /\ root = Layout
  /\ updates = << >>
  /\ ctl = "run"
  /\ sleepers = 0
  /\ loaders = { }
  /\ reqs = 0
  /\ shown = 0
  /\ filesOf = currentDir
  /\ h = H0("Init")

NextBookmark == KeyBookmark \/ UpdateStatus

SpecBookmark == InitBookmark /\ [][NextBookmark]_vars

\* The file operations and the search, confirmed or cancelled.
NextCancel ==
  \/ KeyUp \/ KeyDown \/ KeyDelete \/ KeyRename \/ KeyCopy \/ KeyMove \/ KeySearch
  \/ ConfirmYes \/ ConfirmNo \/ FormOK \/ FormCancel \/ MessageOK
  \/ UpdateStatus

SpecCancel == Init /\ [][NextCancel]_vars

\* Keys pressed in the layout and while a confirmation or an input is shown.
NextModes ==
  \/ KeyUp \/ KeyDown \/ KeyDelete \/ KeyRename \/ KeySearch \/ KeyBookmark
  \/ KeyBackspace \/ ConfirmNo \/ FormCancel \/ UpdateStatus

SpecModes == Init /\ [][NextModes]_vars

\* The bookmark list: opened, an item chosen, dismissed.
NextMarks ==
  \/ KeyListBook \/ BookmarkSelect \/ KeyEsc \/ MessageOK
  \/ UpdateList \/ UpdateStatus

SpecMarks == InitBookmark /\ [][NextMarks]_vars

\* loadTextPreview on its own: one goroutine reading one text file.
LineLens == { 1, 2, 205, 1024, PreviewMaxBytes - 1, PreviewMaxBytes, PreviewMaxBytes + 1 }
LineCounts == { 1, 2, 200, 999, 1000, 1001, 1002 }
TailLens == { 0, 1, PreviewMaxBytes }

ReadContents ==
  { [runs |-> q, tail |-> t] :
      q \in { << >> }
            \cup { << [len |-> l, cnt |-> c] >> : l \in LineLens, c \in LineCounts }
            \cup { << [len |-> 1, cnt |-> c1], [len |-> l, cnt |-> c2] >> :
                     c1 \in { 1, 999 }, l \in LineLens \ { 1 }, c2 \in { 1, 2 } },
      t \in TailLens }

InitRead ==
  /\ \E c \in ReadContents :
       fs = (Root :> DirNode(TRUE, TRUE)) @@ (<< Nago >> :> FileNode(TRUE, TRUE, c))
  /\ currentDir = Root
  /\ files = << [name |-> Nago, isDir |-> FALSE] >>
  /\ bookmarks = << >>
  /\ searchTerm = << >>
  /\ lock = "free"
  /\ items = ListItems(files, << >>)
  /\ cur = 0
  /\ preview = PvEmpty
  /\ status = [dir |-> currentDir, msg |-> "Ready"]
  /\ root = Layout
  /\ updates = << >>
  /\ ctl = "run"
  /\ sleepers = 0
  /\ loaders = { [req |-> 1, path |-> << Nago >>, pc |-> "start",
                  c |-> NoContent, rs |-> ReadInit] }
  /\ reqs = 1
  /\ shown = 0
  /\ filesOf = currentDir
  /\ h = H0("Init")

NextRead == LoaderStart \/ LoaderOpen \/ LoaderIter \/ LoaderDeliver \/ UpdatePreview

SpecRead == InitRead /\ [][NextRead]_vars

\* ------------------------------------------------------------------------
\* Claims
\* ------------------------------------------------------------------------

\* C1: preview delivery is latest-wins: the text of a preview request is
\* never written to the preview pane after the text of a later request has
\* been written, so the pane never shows the text of a request older than
\* the latest one delivered (shown).
C1_LatestWins == preview.k = "text" => preview.req >= shown

\* C2: the stored listing is a listing of the directory named by currentDir:
\* the directory s.files was read from is currentDir, also after a
\* changeDir whose directory read failed.
C2_ListingOfCurrentDir == filesOf = currentDir

\* C3: a failed operation leads back to Browsing with a message: once the
\* message of the failure is acknowledged with its OK button, the root is
\* the browsing layout again.
FailureMessages ==
  { "Delete failed", "Rename failed", "Copy failed", "Move failed", "Not a directory" }
C4_RefreshRegardless == h.op.kind # "none" => h.refreshed

\* C5: changeDir with a target that is no directory leaves currentDir, the
\* listing and the search filter as they were; with a directory it sets
\* currentDir to the absolute path and clears the search filter.
C5_ChangeDirFrame ==
  [][h'.cd # << >> =>
       LET good == { i \in 1..Len(h'.cd) : IsDir(fs, Abs(h'.cd[i].dir)) }
       IN IF good = { }
          THEN currentDir' = currentDir /\ files' = files /\ searchTerm' = searchTerm
          ELSE LET last == CHOOSE i \in good : \A j \in good : j <= i
               IN currentDir' = Abs(h'.cd[last].dir) /\ searchTerm' = << >>]_vars

\* a changeDir to a missing directory was refused while a filter was set
C5_Witness == h.cd # << >> /\ ~h.cd[Len(h.cd)].ok /\ searchTerm # << >>

\* C6: a rename submitted with an empty or all-whitespace name changes
\* nothing in the file system.
C6_BlankRenameRejected ==
  [][(h'.ev = "FormOK" /\ h'.form = "rename"
        /\ \A i \in 1..Len(h'.text) : h'.text[i] = " ") => fs' = fs]_vars

\* a rename was submitted with a name of one space
C6_Witness == h.ev = "FormOK" /\ h.form = "rename" /\ h.text = << " " >>

\* C7: when the list has been rebuilt, every entry shown matches the filter
\* without regard to case, every entry of the listing that matches is shown,
\* and the parent entry is there whenever currentDir has a parent.
C7_VisibleList ==
  h.ev = "UpdateList" =>
    LET names == { TrimPrefix(items[i].label, DirPrefix) : i \in 1..Len(items) }
                   \ { GoUpLabel }
        match(n) == Contains(ToLower(n), ToLower(searchTerm))
    IN /\ \A n \in names : match(n)
       /\ \A i \in 1..Len(files) : match(files[i].name) => files[i].name \in names
       /\ Dir(currentDir) # currentDir => \E i \in 1..Len(items) : items[i].label = GoUpLabel

\* the list was rebuilt under a filter that hides one entry and shows another
C7_Witness ==
  /\ h.ev = "UpdateList" /\ searchTerm # << >>
  /\ \E i \in 1..Len(files) : ~Contains(ToLower(files[i].name), ToLower(searchTerm))
  /\ \E i \in 1..Len(items) : items[i].label # GoUpLabel
  /\ \E i \in 1..Len(items) : items[i].label = GoUpLabel

\* C8: toggleBookmark twice in succession at the same directory gives back
\* the bookmarks as they were, as a list.
C8_TogglePairRestores == Len(h.bm) = 2 => bookmarks = h.bm[1]

\* C8 as amended: the same paths are bookmarked, each once; the list is the
\* same when the directory was not bookmarked or was the last bookmark, and
\* otherwise the directory has moved to the end, the others keeping their order.
C8_TogglePairRestoresSet ==
  Len(h.bm) = 2 =>
    LET before == h.bm[1]
        others(q) == SelectSeq(q, LAMBDA b : b # currentDir)
    IN /\ Range(bookmarks) = Range(before)
       /\ Len(bookmarks) = Len(before)
       /\ others(bookmarks) = others(before)
       /\ (currentDir \notin Range(before) \/ before[Len(before)] = currentDir)
            => bookmarks = before

\* two toggles at a bookmarked directory that was not the last bookmark
C8_Witness ==
  /\ Len(h.bm) = 2
  /\ \E i \in 1..(Len(h.bm[1]) - 1) : h.bm[1][i] = currentDir

\* the size of a file
RECURSIVE RunBytes(_)
RunBytes(q) == IF q = << >> THEN 0 ELSE Head(q).len * Head(q).cnt + RunBytes(Tail(q))
FileSize(c) == RunBytes(c.runs) + c.tail

\* C9: the text of a preview is never longer than PreviewMaxBytes and never
\* has more than TextPreviewLines lines.
C9_PreviewWithinCeilings ==
  preview.k = "text" =>
    /\ TextLen(preview.text) <= PreviewMaxBytes
    /\ TextLines(preview.text) <= TextPreviewLines

\* C10: the truncation marker is appended whenever the read stopped at the
\* byte ceiling with file content left, and not when it stopped at the end
\* of the file below the ceiling.
C10_MarkerIffByteLimited ==
  preview.k = "text" =>
    LET t == preview.text
    IN /\ (t.stop = "bytes" /\ t.n < FileSize(fs[preview.path].c)) => t.marker
       /\ (t.stop = "eof" /\ t.n < PreviewMaxBytes) => ~t.marker

TieBreakLess(a, b) ==
  less(a, b) \/ (~less(b, a) /\ StrLess(a.name, b.name))

\* C12: after a load the listing has the directories before the files and
\* each group in the order of the lower-cased names, names that differ in
\* case only in byte order: one order for each set of entries.
C12_SortedWithTieBreak ==
  h.ev = "SortedLoad" =>
    \A i \in 1..Len(files), j \in 1..Len(files) :
       i < j => TieBreakLess(files[i], files[j])

\* C13: choosing a path in the bookmark list calls changeDir for it and
\* leaves the browsing layout as the root: the bookmark list is no longer
\* shown.
C13_SelectLeavesBrowsing ==
  [][h'.ev = "BookmarkSelect" => root'.t = "layout"]_vars

\* C14: the answer No to the confirmation of a delete, and Cancel in the
\* input of a rename, copy, move or search, set the browsing layout as root
\* and change neither currentDir, the listing, the filter, the bookmarks nor
\* the file system.
C14_CancelChangesNothing ==
  [][h'.ev \in { "ConfirmNo", "FormCancel" } =>
       /\ root'.t = "layout"
       /\ UNCHANGED << currentDir, files, searchTerm, bookmarks, fs >>]_vars

\* the delete of an entry other than the first was answered with No
C14_Witness == h.ev = "ConfirmNo" /\ cur > 0 /\ root.t = "layout"

\* the steps of the background goroutines
BackgroundSteps ==
  { "SleeperRun", "LoaderStart", "LoaderOpen", "LoaderIter", "LoaderDeliver" }

\* C15: a background goroutine never writes the preview pane itself: what
\* it has for the pane it queues as an update, which the event loop runs.
C15_BackgroundQueuesWrites ==
  [][h'.ev \in BackgroundSteps => preview' = preview]_vars

\* C16: the preview changeDir asks for after it has entered a directory is
\* the preview of an entry of that directory: its path is currentDir joined
\* with the name of an entry the directory has.
C16_PreviewOfNewDirectory ==
  (h.cd # << >> /\ h.cd[Len(h.cd)].ok) =>
    \A i \in 1..Len(h.target) :
       \E n \in ChildNames(fs, currentDir) : h.target[i] = Join(currentDir, n)

\* C17: Backspace while currentDir is the root of the file system, which is
\* its own parent, changes nothing: currentDir, the listing, the filter and
\* the current item are as before.
C17_GoUpAtRootNoOp ==
  [][(h'.ev = "KeyBackspace" /\ Dir(currentDir) = currentDir) =>
       UNCHANGED << currentDir, files, searchTerm, cur >>]_vars

\* C18: a load of a readable directory returns with the lock of the state
\* released: the goroutine is not blocked in Lock and the lock is free.
C18_LoadReleasesLock ==
  h.ev = "MainLoadFiles" => (ctl = "run" /\ lock = "free")

\* the keys that start an operation, a search, a bookmark toggle or go-up
IntentKeys ==
  { "KeyDelete", "KeyRename", "KeyCopy", "KeyMove", "KeySearch", "KeyBookmark",
    "KeyBackspace" }

\* C19: while a confirmation, an input, the bookmark list or a message is
\* the root, a key that starts an operation, a search, a bookmark toggle or
\* go-up changes neither currentDir nor the bookmarks and puts no other
\* confirmation or input in place of the one shown.
C19_IntentsInBrowsingOnly ==
  [][(root.t # "layout" /\ h'.ev \in IntentKeys) =>
       UNCHANGED << currentDir, bookmarks, root >>]_vars

\* C20: a copy leaves its source as it was: every file and directory at or
\* below the source path is there after the copy, with the same content,
\* whatever the destination is.
C20_CopyKeepsSource ==
  [][(h'.ev = "FormOK" /\ h'.form = "copy") =>
       LET src == Join(currentDir, root.name)
       IN \A p \in DOMAIN fs :
             IsPrefix(src, p) => (p \in DOMAIN fs' /\ fs'[p] = fs[p])]_vars

====
